---- MODULE Spec2Model ----
(***************************************************************************)
(* The hotel listing service of main.py: GET /hotels (list_hotels) and the *)
(* lazy seeding step (_ensure_seed_hotels), over the "hotel" collection of *)
(* the document store.                                                     *)
(*                                                                         *)
(* Encoding.                                                               *)
(*   - Optional[T] is a sequence: <<>> is None, <<v>> is the value v.      *)
(*   - A stored document is a function from field names to values; a       *)
(*     missing field is a name outside its DOMAIN, and dict.get(k, dflt)  *)
(*     is Get(d, k, dflt).                                                 *)
(*   - A string that is searched (location, destination) is a sequence of  *)
(*     one-character strings; the other strings are TLA+ strings.          *)
(*   - Ratings are kept in tenths (8.9 is 89), prices in whole units.      *)
(*   - Each request runs in its own worker thread; a thread's steps are    *)
(*     its storage operations (count, insert, find), which the store       *)
(*     serialises. The code between two storage operations only touches    *)
(*     locals and belongs to the step of the operation before it.          *)
(*   - A request that has ended leaves one trace: resp, the response the   *)
(*     caller got. Every response is the latest one when it is sent.       *)
(***************************************************************************)
EXTENDS Integers, Sequences, FiniteSets, TLC

\* ------------------------------------------------------------- bounds

\* Requests in one behaviour, each served by its own worker thread.
MaxCalls == 2
\* Documents the collection may already hold when the process starts.
MaxPre == 3

\* ---------------------------------------------------------- constants

\* The sort key of a hotel without offers (1e9).
Sentinel == 1000000000
\* Query(20, ge=1, le=100)
DefaultLimit == 20

None == <<>>
Some(v) == <<v>>

\* Request p is the p-th to arrive.
Procs == 1..MaxCalls

\* ------------------------------------------------------------ helpers

\* dict.get(k, default)
Get(d, k, default) == IF k \in DOMAIN d THEN d[k] ELSE default

\* min() of a non-empty list of numbers
MinOf(s) == CHOOSE m \in {s[i] : i \in DOMAIN s} : \A i \in DOMAIN s : m <= s[i]

\* str.lower() on the characters that occur in the model's strings
Lower(c) ==
    CASE c = "M" -> "m" [] c = "B" -> "b" [] c = "U" -> "u" [] c = "S" -> "s"
      [] c = "A" -> "a" [] c = "Z" -> "z" [] c = "T" -> "t" [] c = "J" -> "j"
      [] c = "O" -> "o" [] c = "N" -> "n" [] OTHER -> c

\* {"$regex": pat, "$options": "i"} for a pattern of plain letters: pat occurs
\* in text as a contiguous run, compared without case.
RegexSearchI(pat, text) ==
    \E k \in 0..(Len(text) - Len(pat)) :
        \A i \in 1..Len(pat) : Lower(pat[i]) = Lower(text[k + i])

Take(s, n) == IF Len(s) <= n THEN s ELSE SubSeq(s, 1, n)

\* --------------------------------------------------------- seed data

sample_hotels ==
    << [name |-> "Seaside Vista Resort",
        location |-> <<"M","i","a","m","i"," ","B","e","a","c","h",","," ","U","S","A">>,
        rating |-> 89,
        reviews |-> 2312,
        image |-> "https://images.unsplash.com/photo-1501117716987-c8e01f2a0a3a?q=80&w=2070&auto=format&fit=crop",
        offers |-> << [name |-> "Booking.com", price |-> 182],
                      [name |-> "Expedia", price |-> 176],
                      [name |-> "Hotels.com", price |-> 189] >>],
       [name |-> "Alpine Lodge & Spa",
        location |-> <<"Z","e","r","m","a","t","t",","," ","S","w","i","t","z","e","r","l","a","n","d">>,
        rating |-> 92,
        reviews |-> 1348,
        image |-> "https://images.unsplash.com/photo-1528909514045-2fa4ac7a08ba?q=80&w=2070&auto=format&fit=crop",
        offers |-> << [name |-> "Booking.com", price |-> 245],
                      [name |-> "Expedia", price |-> 239],
                      [name |-> "Hotels.com", price |-> 252] >>],
       [name |-> "City Center Boutique Hotel",
        location |-> <<"T","o","k","y","o",","," ","J","a","p","a","n">>,
        rating |-> 86,
        reviews |-> 5120,
        image |-> "https://images.unsplash.com/photo-1551882547-ff40c63fe5fa?q=80&w=2070&auto=format&fit=crop",
        offers |-> << [name |-> "Booking.com", price |-> 128],
                      [name |-> "Expedia", price |-> 119],
                      [name |-> "Hotels.com", price |-> 130] >>],
       [name |-> "Lagoon Overwater Villas",
        location |-> <<"M","a","l","e_acute",","," ","M","a","l","d","i","v","e","s">>,
        rating |-> 95,
        reviews |-> 874,
        image |-> "https://images.unsplash.com/photo-1519710164239-da123dc03ef4?q=80&w=2070&auto=format&fit=crop",
        offers |-> << [name |-> "Booking.com", price |-> 612],
                      [name |-> "Expedia", price |-> 598],
                      [name |-> "Hotels.com", price |-> 629] >>] >>

\* ------------------------------------------------- the document store

\* The store assigns _id on insert; no document is ever deleted, so the
\* position of the new document is fresh.
WithId(doc, n) ==
    [k \in DOMAIN doc \cup {"_id"} |-> IF k = "_id" THEN n ELSE doc[k]]

\* db["hotel"].count_documents({})
CountDocuments(coll) == Len(coll)

\* One field of a query predicate against one document. A document that
\* lacks the field matches neither $regex nor $gte.
Matches(d, f) ==
    /\ "location" \in DOMAIN f =>
          /\ "location" \in DOMAIN d
          /\ RegexSearchI(f["location"], d["location"])
    /\ "rating" \in DOMAIN f =>
          /\ "rating" \in DOMAIN d
          /\ d["rating"] >= f["rating"]

\* find(filter).limit(limit), in insertion order
Find(coll, f, limit) ==
    LET Sel(d) == Matches(d, f) IN Take(SelectSeq(coll, Sel), limit)

\* create_document(collection, data): the collection after the insert, or a
\* failure when there is no handle or the store cannot be reached.
CreateDocument(noHandle, up, coll, doc) ==
    IF noHandle \/ ~up
    THEN [ok |-> FALSE, coll |-> coll]
    ELSE [ok |-> TRUE, coll |-> Append(coll, WithId(doc, Len(coll) + 1))]

\* get_documents(collection, filter, limit): the documents, or a failure when
\* there is no handle or the store cannot be reached.
GetDocuments(noHandle, up, coll, f, limit) ==
    IF noHandle \/ ~up
    THEN [ok |-> FALSE, docs |-> <<>>]
    ELSE [ok |-> TRUE, docs |-> Find(coll, f, limit)]

\* ------------------------------------------------ _ensure_seed_hotels

\* Variant: the seed step returns only once four records are stored.
AlreadySeededWhenFull(n) == n >= Len(sample_hotels)

\* Variant: the seed step always returns.
AlreadySeededAlways(n) == TRUE

\* if count > 0: return
AlreadySeeded(n) == n > 0

\* --------------------------------------------------------- list_hotels

\* Variant: min_rating left out of the predicate.
BaseFilterNoRating(destination, min_rating) ==
    IF destination # None /\ destination[1] # <<>>
    THEN [location |-> destination[1]] ELSE <<>>

\* f: the predicate pushed down to the store
BaseFilter(destination, min_rating) ==
    LET loc == IF destination # None /\ destination[1] # <<>>
               THEN [location |-> destination[1]] ELSE <<>>
        rat == IF min_rating # None
               THEN [rating |-> min_rating[1]] ELSE <<>>
    IN  [k \in DOMAIN loc \cup DOMAIN rat |->
            IF k \in DOMAIN loc THEN loc[k] ELSE rat[k]]

\* best_price = min([o.get("price", 0) for o in offers], default=None)
BestPrice(d) ==
    LET offers == Get(d, "offers", <<>>)
    IN  IF offers = <<>> THEN None
        ELSE Some(MinOf([i \in DOMAIN offers |-> Get(offers[i], "price", 0)]))

\* Variant: the comparison with max_price reversed.
ExcludedBelow(d, max_price) ==
    /\ max_price # None
    /\ BestPrice(d) # None
    /\ BestPrice(d)[1] < max_price[1]

\* the `continue` of the loop over docs
Excluded(d, max_price) ==
    /\ max_price # None
    /\ BestPrice(d) # None
    /\ BestPrice(d)[1] > max_price[1]

\* the dict appended to hotels; float() and int() leave a stored number's
\* value as it is
Project(d) ==
    [id |-> ToString(Get(d, "_id", None)),
     name |-> Get(d, "name", "None"),
     location |-> Get(d, "location", None),
     rating |-> Get(d, "rating", 0),
     reviews |-> Get(d, "reviews", 0),
     image |-> Get(d, "image", "None"),
     offers |-> Get(d, "offers", <<>>)]

\* the loop over docs: the survivors, projected, in fetch order
RECURSIVE PostFilter(_, _)
PostFilter(docs, max_price) ==
    IF docs = <<>> THEN <<>>
    ELSE IF Excluded(Head(docs), max_price)
         THEN PostFilter(Tail(docs), max_price)
         ELSE <<Project(Head(docs))>> \o PostFilter(Tail(docs), max_price)

\* o["price"] raises KeyError on an offer without a price
SortKeyRaises(h) ==
    LET offers == Get(h, "offers", <<>>)
    IN  offers # <<>> /\ \E i \in DOMAIN offers : "price" \notin DOMAIN offers[i]

\* key=lambda h: min([o["price"] ...]) if h.get("offers") else 1e9
SortKey(h) ==
    LET offers == Get(h, "offers", <<>>)
    IN  IF offers # <<>>
        THEN MinOf([i \in DOMAIN offers |-> offers[i]["price"]])
        ELSE Sentinel

\* x placed after every element whose key is not larger (list.sort is stable)
RECURSIVE InsertStable(_, _)
InsertStable(s, x) ==
    IF s = <<>> THEN <<x>>
    ELSE IF SortKey(Head(s)) <= SortKey(x)
         THEN <<Head(s)>> \o InsertStable(Tail(s), x)
         ELSE <<x>> \o s

\* Variant: the list returned in fetch order.
SortHotelsMissing(hs) == hs

\* hotels.sort(key=...)
RECURSIVE SortHotels(_)
SortHotels(hs) ==
    IF hs = <<>> THEN <<>>
    ELSE InsertStable(SortHotels(SubSeq(hs, 1, Len(hs) - 1)), hs[Len(hs)])

\* Variant: a failed fetch answered with an empty list.
RespondSwallow(noHandle, up, coll, q) ==
    LET r == GetDocuments(noHandle, up, coll,
                          BaseFilter(q.destination, q.min_rating), q.limit)
        hotels == PostFilter(r.docs, q.max_price)
    IN  IF ~r.ok
        THEN [kind |-> "done", err |-> "", hotels |-> <<>>]
        ELSE IF \E i \in DOMAIN hotels : SortKeyRaises(hotels[i])
        THEN [kind |-> "error", err |-> "KeyError", hotels |-> <<>>]
        ELSE [kind |-> "done", err |-> "", hotels |-> SortHotels(hotels)]

\* Variant: the limit applied after the max_price filter.
RespondLimitLast(noHandle, up, coll, q) ==
    LET r == GetDocuments(noHandle, up, coll,
                          BaseFilter(q.destination, q.min_rating), Len(coll))
        hotels == Take(PostFilter(r.docs, q.max_price), q.limit)
    IN  IF ~r.ok
        THEN [kind |-> "error", err |-> IF noHandle THEN "NoDatabase" ELSE "Unreachable",
              hotels |-> <<>>]
        ELSE IF \E i \in DOMAIN hotels : SortKeyRaises(hotels[i])
        THEN [kind |-> "error", err |-> "KeyError", hotels |-> <<>>]
        ELSE [kind |-> "done", err |-> "", hotels |-> SortHotels(hotels)]

\* The handler from the fetch to the return: what the caller gets.
Respond(noHandle, up, coll, q) ==
    LET r == GetDocuments(noHandle, up, coll,
                          BaseFilter(q.destination, q.min_rating), q.limit)
        hotels == PostFilter(r.docs, q.max_price)
    IN  IF ~r.ok
        THEN [kind |-> "error", err |-> IF noHandle THEN "NoDatabase" ELSE "Unreachable",
              hotels |-> <<>>]
        ELSE IF \E i \in DOMAIN hotels : SortKeyRaises(hotels[i])
        THEN [kind |-> "error", err |-> "KeyError", hotels |-> <<>>]
        ELSE [kind |-> "done", err |-> "", hotels |-> SortHotels(hotels)]

\* -------------------------------------------------------------- inputs

japan == <<"j","a","p","a","n">>

Destinations == {None, Some(japan)}
MaxPrices == {None, Some(150), Some(239)}
MinRatings == {None, Some(90)}
Limits == {1, 4, DefaultLimit}

Requests ==
    [destination : Destinations, max_price : MaxPrices,
     min_rating : MinRatings, limit : Limits]

NoRequest == [destination |-> None, max_price |-> None, min_rating |-> None, limit |-> 0]

\* Documents written to the collection by other means before the process
\* starts: a hotel without offers, a record with only name, location and
\* image, a hotel with an offer that has no price, a hotel whose only offer
\* is above the sentinel.
PreDocs ==
    { [name |-> "Hilltop Cabin",
       location |-> <<"O","s","l","o",","," ","N","o","r","w","a","y">>,
       rating |-> 95, reviews |-> 12, image |-> "cabin.jpg", offers |-> <<>>],
      [name |-> "Bare Record",
       location |-> <<"T","o","k","y","o",","," ","J","a","p","a","n">>,
       image |-> "bare.jpg"],
      [name |-> "Harbour Inn",
       location |-> <<"O","s","l","o",","," ","N","o","r","w","a","y">>,
       rating |-> 80, reviews |-> 40, image |-> "inn.jpg",
       offers |-> << [name |-> "Direct"], [name |-> "Expedia", price |-> 90] >>],
      [name |-> "Orbital Suite",
       location |-> <<"T","o","k","y","o",","," ","J","a","p","a","n">>,
       rating |-> 91, reviews |-> 3, image |-> "orbit.jpg",
       offers |-> << [name |-> "Direct", price |-> 2000000000] >>] }

\* The collections the process may find: distinct documents, each with the
\* _id the store gave it.
InitialCollections ==
    { [i \in DOMAIN s |-> WithId(s[i], i)] :
        s \in { t \in UNION { [1..n -> PreDocs] : n \in 0..MaxPre } :
                  \A i, j \in DOMAIN t : i # j => t[i] # t[j] } }

\* --------------------------------------------------------------- state

VARIABLES
    hotel,      \* db["hotel"]: the stored documents, in insertion order
    dbNone,     \* database.db is None (fixed when the module is imported)
    reachable,  \* the store answers
    pc,         \* where each worker thread is
    count,      \* _ensure_seed_hotels' local count
    idx,        \* position of the loop over sample_hotels
    resp        \* the latest response sent to a caller

vars == <<hotel, dbNone, reachable, pc, count, idx, resp>>

NoResponse ==
    [kind |-> "none", err |-> "", req |-> NoRequest, hotels |-> <<>>, count |-> None]

\* An exception leaves the handler: the caller gets an error response.
Raised(e, c) ==
    [kind |-> "error", err |-> e, req |-> NoRequest, hotels |-> <<>>, count |-> c]

Init ==
    /\ hotel \in InitialCollections
    /\ dbNone \in BOOLEAN
    /\ reachable = TRUE
    /\ pc = [p \in Procs |-> "idle"]
    /\ count = [p \in Procs |-> None]
    /\ idx = [p \in Procs |-> 0]
    /\ resp = NoResponse

\* A request arrives and a worker thread enters list_hotels.
Call(p) ==
    /\ pc[p] = "idle"
    /\ \A q \in Procs : q < p => pc[q] # "idle"
    /\ pc' = [pc EXCEPT ![p] = "seed_check"]
    /\ UNCHANGED <<hotel, dbNone, reachable, count, idx, resp>>

\* Variant: the count and the four inserts as one storage transaction.
SeedCheckAtomic(p) ==
    /\ pc[p] = "seed_check"
    /\ IF dbNone
       THEN /\ pc' = [pc EXCEPT ![p] = "fetch"]
            /\ UNCHANGED <<hotel, count, resp>>
       ELSE IF ~reachable
       THEN /\ pc' = [pc EXCEPT ![p] = "returned"]
            /\ resp' = Raised("Unreachable", None)
            /\ UNCHANGED <<hotel, count>>
       ELSE /\ count' = [count EXCEPT ![p] = Some(CountDocuments(hotel))]
            /\ pc' = [pc EXCEPT ![p] = "fetch"]
            /\ hotel' = IF AlreadySeeded(CountDocuments(hotel)) THEN hotel
                        ELSE [i \in DOMAIN sample_hotels |-> WithId(sample_hotels[i], i)]
            /\ UNCHANGED resp
    /\ UNCHANGED <<dbNone, reachable, idx>>

\* _ensure_seed_hotels up to the loop: the None check and the count.
SeedCheck(p) ==
    /\ pc[p] = "seed_check"
    /\ IF dbNone
       THEN /\ pc' = [pc EXCEPT ![p] = "fetch"]
            /\ UNCHANGED <<count, idx, resp>>
       ELSE IF ~reachable
       THEN /\ pc' = [pc EXCEPT ![p] = "returned"]
            /\ resp' = Raised("Unreachable", None)
            /\ UNCHANGED <<count, idx>>
       ELSE /\ count' = [count EXCEPT ![p] = Some(CountDocuments(hotel))]
            /\ IF AlreadySeeded(CountDocuments(hotel))
               THEN /\ pc' = [pc EXCEPT ![p] = "fetch"]
                    /\ UNCHANGED idx
               ELSE /\ pc' = [pc EXCEPT ![p] = "seed_insert"]
                    /\ idx' = [idx EXCEPT ![p] = 1]
            /\ UNCHANGED resp
    /\ UNCHANGED <<hotel, dbNone, reachable>>

\* One turn of `for h in sample_hotels: create_document("hotel", h)`.
SeedInsert(p) ==
    /\ pc[p] = "seed_insert"
    /\ LET r == CreateDocument(dbNone, reachable, hotel, sample_hotels[idx[p]])
       IN  IF ~r.ok
           THEN /\ pc' = [pc EXCEPT ![p] = "returned"]
                /\ resp' = Raised("Unreachable", count[p])
                /\ count' = [count EXCEPT ![p] = None]
                /\ idx' = [idx EXCEPT ![p] = 0]
                /\ UNCHANGED hotel
           ELSE /\ hotel' = r.coll
                /\ IF idx[p] < Len(sample_hotels)
                   THEN /\ idx' = [idx EXCEPT ![p] = idx[p] + 1]
                        /\ UNCHANGED pc
                   ELSE /\ pc' = [pc EXCEPT ![p] = "fetch"]
                        /\ idx' = [idx EXCEPT ![p] = 0]
                /\ UNCHANGED <<resp, count>>
    /\ UNCHANGED <<dbNone, reachable>>

\* list_hotels after the seed step: the fetch, the filter, the projection,
\* the sort and the return. The query parameters are first read here.
Fetch(p) ==
    /\ pc[p] = "fetch"
    /\ \E q \in Requests :
         LET out == Respond(dbNone, reachable, hotel, q)
         IN  resp' = [kind |-> out.kind, err |-> out.err, req |-> q,
                      hotels |-> out.hotels, count |-> count[p]]
    /\ pc' = [pc EXCEPT ![p] = "returned"]
    /\ count' = [count EXCEPT ![p] = None]
    /\ UNCHANGED <<hotel, dbNone, reachable, idx>>

\* The store stops answering.
NetDown ==
    /\ ~dbNone
    /\ reachable
    /\ reachable' = FALSE
    /\ UNCHANGED <<hotel, dbNone, pc, count, idx, resp>>

\* The store answers again.
NetUp ==
    /\ ~dbNone
    /\ ~reachable
    /\ reachable' = TRUE
    /\ UNCHANGED <<hotel, dbNone, pc, count, idx, resp>>

Next ==
    \/ \E p \in Procs : Call(p)
    \/ \E p \in Procs : SeedCheck(p)
    \/ \E p \in Procs : SeedInsert(p)
    \/ \E p \in Procs : Fetch(p)
    \/ NetDown
    \/ NetUp

\* Any number of requests in flight, over any collection found at start.
Spec == Init /\ [][Next]_vars

\* A request arrives only when no other request is in flight.
SeqCall(p) ==
    /\ \A q \in Procs : pc[q] \in {"idle", "returned"}
    /\ Call(p)

SeqNext ==
    \/ \E p \in Procs : SeqCall(p)
    \/ \E p \in Procs : SeedCheck(p)
    \/ \E p \in Procs : SeedInsert(p)
    \/ \E p \in Procs : Fetch(p)
    \/ NetDown
    \/ NetUp

\* A sequential series of requests.
SpecSeq == Init /\ [][SeqNext]_vars

InitEmpty == Init /\ hotel = <<>>

\* Concurrent requests against a store that starts empty.
SpecRace == InitEmpty /\ [][Next]_vars

\* ------------------------------------------------- terms of the claims

\* The response is a hotel list.
Returned == resp.kind = "done"

\* The request carried no filter.
NoFilters ==
    /\ resp.req.destination = None
    /\ resp.req.max_price = None
    /\ resp.req.min_rating = None

\* Every offer of h has a price.
Priced(h) == \A j \in DOMAIN h.offers : "price" \in DOMAIN h.offers[j]

\* h has an offer at or below m.
HasOfferAtMost(h, m) ==
    \E j \in DOMAIN h.offers : "price" \in DOMAIN h.offers[j] /\ h.offers[j].price <= m

\* The cheapest offer of a hotel that has offers, all priced.
Cheapest(h) ==
    CHOOSE m \in {h.offers[j].price : j \in DOMAIN h.offers} : ~HasOfferAtMost(h, m - 1)

Names(hs) == [i \in DOMAIN hs |-> hs[i].name]

SeedNames == {sample_hotels[i].name : i \in DOMAIN sample_hotels}

\* Thread p takes a step.
Steps(p) == pc'[p] # pc[p] \/ idx'[p] # idx[p] \/ count'[p] # count[p]

\* C1: with max_price supplied, every returned hotel has no offers or has an
\* offer priced at or below max_price.
C1_MaxPriceRespected ==
    (Returned /\ resp.req.max_price # None) =>
        \A i \in DOMAIN resp.hotels :
            \/ resp.hotels[i].offers = <<>>
            \/ HasOfferAtMost(resp.hotels[i], resp.req.max_price[1])

\* The four seed hotels queried with max_price = 150 alone: one is returned.
C1_Witness ==
    /\ Returned
    /\ resp.req = [destination |-> None, max_price |-> Some(150),
                   min_rating |-> None, limit |-> DefaultLimit]
    /\ Len(hotel) = Len(sample_hotels)
    /\ Names(resp.hotels) = <<"City Center Boutique Hotel">>

\* C2: the returned list is in non-decreasing order of cheapest offer and
\* every hotel without offers comes after every hotel with offers, whatever
\* the prices.
C2_SortedNoOffersLast ==
    Returned =>
        \A i, j \in DOMAIN resp.hotels :
            i < j =>
                LET a == resp.hotels[i]
                    b == resp.hotels[j]
                IN  /\ a.offers = <<>> => b.offers = <<>>
                    /\ (a.offers # <<>> /\ b.offers # <<>> /\ Priced(a) /\ Priced(b))
                          => Cheapest(a) <= Cheapest(b)

\* C6: a stored record with missing fields never makes the request fail:
\* the only errors are those of an unavailable store.
C6_MissingFieldsTolerated ==
    resp.kind = "error" => resp.err \in {"NoDatabase", "Unreachable"}

\* C8: with min_rating supplied, every returned hotel has a rating at or
\* above it.
C8_MinRatingRespected ==
    (Returned /\ resp.req.min_rating # None) =>
        \A i \in DOMAIN resp.hotels : resp.hotels[i].rating >= resp.req.min_rating[1]

\* The four seed hotels queried with min_rating = 9.0 alone.
C8_Witness ==
    /\ Returned
    /\ resp.req = [destination |-> None, max_price |-> None,
                   min_rating |-> Some(90), limit |-> DefaultLimit]
    /\ Len(hotel) = Len(sample_hotels)
    /\ Names(resp.hotels) = <<"Alpine Lodge & Spa", "Lagoon Overwater Villas">>

\* C3: the seed step on a collection that holds a hotel inserts nothing; in a
\* sequential series of requests only a request that counted zero writes, and
\* each seed hotel is stored at most once.
C3_SeedOnlyOnEmpty ==
    [][ /\ \A p \in Procs :
              (pc[p] = "seed_check" /\ Steps(p) /\ Len(hotel) > 0) =>
                  (hotel' = hotel /\ pc'[p] # "seed_insert")
        /\ hotel' # hotel =>
              \E p \in Procs : pc[p] = "seed_insert" /\ count[p] = Some(0) /\ Steps(p)
        /\ \A i, j \in DOMAIN hotel' :
              (i # j /\ hotel'[i].name \in SeedNames) => hotel'[i].name # hotel'[j].name
      ]_vars

\* The second request of a series has counted the four seed hotels of the
\* first and is past the seed step.
C3_Witness ==
    /\ pc[1] = "returned"
    /\ pc[2] = "fetch"
    /\ count[2] = Some(Len(sample_hotels))
    /\ Names(hotel) = Names(sample_hotels)

\* C4: no filters, limit 20, on a reachable empty collection: exactly the
\* four demo hotels are stored and all four are returned, cheapest first.
C4_SeedScenario ==
    (Returned /\ NoFilters /\ resp.req.limit = DefaultLimit /\ resp.count = Some(0)) =>
        /\ Names(resp.hotels) = <<"City Center Boutique Hotel", "Seaside Vista Resort",
                                  "Alpine Lodge & Spa", "Lagoon Overwater Villas">>
        /\ [i \in DOMAIN resp.hotels |-> Cheapest(resp.hotels[i])] = <<119, 176, 239, 598>>
        /\ Len(hotel) = 4
        /\ Names(hotel) = Names(sample_hotels)

\* Such a request has been answered.
C4_Witness ==
    /\ Returned /\ NoFilters /\ resp.req.limit = DefaultLimit /\ resp.count = Some(0)
    /\ Len(resp.hotels) = 4

\* C5: while the store is unavailable (no handle, or unreachable) nothing is
\* written, a request that ends ends in an error without a list, and a
\* storage operation that fails ends the request at once (no retry).
C5_UnavailableIsError ==
    [][ (dbNone \/ ~reachable) =>
          /\ hotel' = hotel
          /\ \A p \in Procs :
                /\ (pc[p] # "returned" /\ pc'[p] = "returned") =>
                      (resp'.kind = "error" /\ resp'.hotels = <<>>)
                /\ (Steps(p) /\ pc[p] \in {"seed_insert", "fetch"}) => pc'[p] = "returned"
                /\ (Steps(p) /\ pc[p] = "seed_check" /\ ~dbNone) => pc'[p] = "returned"
      ]_vars

\* A request made without a database handle has ended in an error.
C5_Witness ==
    /\ dbNone
    /\ resp.kind = "error"
    /\ resp.err = "NoDatabase"

\* The documents of coll that match the pushed-down filters of request q.
MatchesRequest(d, q) ==
    /\ q.destination # None => RegexSearchI(q.destination[1], d.location)
    /\ q.min_rating # None => ("rating" \in DOMAIN d /\ d.rating >= q.min_rating[1])

\* d passes the max_price filter of request q.
PassesPrice(d, q) ==
    \/ q.max_price = None
    \/ "offers" \notin DOMAIN d
    \/ d.offers = <<>>
    \/ HasOfferAtMost(d, q.max_price[1])

\* The positions of coll whose document is among the first q.limit matches.
Fetched(coll, q) ==
    {i \in DOMAIN coll :
        /\ MatchesRequest(coll[i], q)
        /\ Cardinality({k \in 1..i : MatchesRequest(coll[k], q)}) <= q.limit}

\* C9: the returned list has at most limit entries and is exactly the
\* max_price-surviving part of the first limit fetched records.
C9_LimitBeforePostFilter ==
    [][ \A p \in Procs :
          (pc[p] = "fetch" /\ pc'[p] = "returned" /\ resp'.kind = "done") =>
              LET q == resp'.req
                  surv == {i \in Fetched(hotel, q) : PassesPrice(hotel[i], q)}
              IN  /\ Len(resp'.hotels) <= q.limit
                  /\ Len(resp'.hotels) = Cardinality(surv)
                  /\ {resp'.hotels[k].id : k \in DOMAIN resp'.hotels}
                        = {ToString(hotel[i]["_id"]) : i \in surv}
      ]_vars

\* Fewer than limit hotels were returned although more than limit stored
\* hotels satisfy every filter of the request.
C9_Witness ==
    /\ Returned
    /\ Len(resp.hotels) < resp.req.limit
    /\ Cardinality({i \in DOMAIN hotel :
            MatchesRequest(hotel[i], resp.req) /\ PassesPrice(hotel[i], resp.req)})
          > resp.req.limit

\* C7: the count and the inserts are separate steps: the count writes
\* nothing, and each insert of a request that counted zero appends its seed
\* hotel to whatever the collection holds by then.
C7_SeedCheckNotAtomic ==
    [][ \A p \in Procs :
          /\ (pc[p] = "seed_check" /\ Steps(p)) => hotel' = hotel
          /\ (pc[p] = "seed_insert" /\ Steps(p) /\ pc'[p] # "returned") =>
                hotel' = Append(hotel, WithId(sample_hotels[idx[p]], Len(hotel) + 1))
      ]_vars

\* Two requests each counted zero and the collection holds a seed hotel
\* twice.
C7_Witness ==
    /\ \A p \in {1, 2} : count[p] = Some(0)
    /\ Len(hotel) > Len(sample_hotels)
    /\ \E i, j \in DOMAIN hotel : i # j /\ hotel[i].name = hotel[j].name

\* C10: every unfiltered request with limit >= 4 that is answered on a store
\* that started empty gets all four demo hotels.
C10_AllOrNothing ==
    (Returned /\ NoFilters /\ resp.req.limit >= 4) =>
        SeedNames \subseteq {resp.hotels[i].name : i \in DOMAIN resp.hotels}

\* C10 as amended: such a request gets at least one hotel and only demo
\* hotels, and gets all four when it counted zero itself and the limit did
\* not cut the list.
C10_AtLeastOneSeed ==
    (Returned /\ NoFilters /\ resp.req.limit >= 4) =>
        /\ Len(resp.hotels) >= 1
        /\ {resp.hotels[i].name : i \in DOMAIN resp.hotels} \subseteq SeedNames
        /\ (resp.count = Some(0) /\ Len(resp.hotels) < resp.req.limit) =>
              SeedNames \subseteq {resp.hotels[i].name : i \in DOMAIN resp.hotels}

\* Such a request was answered with one to three hotels.
C10_Witness ==
    /\ Returned /\ NoFilters /\ resp.req.limit >= 4
    /\ Len(resp.hotels) \in 1..3

====
